---- MODULE Spec2Model ----
(***************************************************************************)
(* Model of the ImageAnalyzer upload widget (src/script.js).               *)
(*                                                                         *)
(* The widget is a single object driven by browser events.  Its handlers   *)
(* run to completion; the only suspension points are the FileReader read   *)
(* started by showPreview and the two awaits of analyzeImage (fetch, then  *)
(* response.json()).  Every handler, and every continuation after a        *)
(* suspension point, is one action.                                        *)
(*                                                                         *)
(* The user-visible messages of the source are Chinese; the module keeps   *)
(* an English rendering of each, one definition per message.               *)
(***************************************************************************)
EXTENDS Integers, Sequences, FiniteSets, Bags, TLC

VARIABLES
    selectedFile,    \* this.selectedFile: a file, or null
    fileInputValue,  \* this.fileInput.value
    uploadArea,      \* this.uploadArea.style.display
    previewSection,  \* this.previewSection.style.display
    resultsSection,  \* this.resultsSection.style.display
    loadingOverlay,  \* this.loadingOverlay.style.display
    previewImage,    \* this.previewImage.src
    resultsContent,  \* this.resultsContent.textContent
    toastContainer,  \* children of this.toastContainer, in document order
    timers,          \* pending setTimeout callbacks of showToast, in firing order
    readers,         \* bag of the files being read by the FileReaders of showPreview
    requests,        \* bag of the analyzeImage calls suspended at an await
    clipboard,       \* the text on the system clipboard
    copies           \* bag of the copyResults calls suspended at their await

vars == <<selectedFile, fileInputValue, uploadArea, previewSection,
          resultsSection, loadingOverlay, previewImage, resultsContent,
          toastContainer, timers, readers, requests, clipboard, copies>>

\* What only copyResults touches.
copyVars == <<clipboard, copies>>

(***************************************************************************)
(* Bound of the model: the callbacks pending in the event loop (timers of   *)
(* showToast, FileReader reads, suspended analyzeImage and copyResults      *)
(* calls).  A user event that would add one more is not taken when the      *)
(* loop is full.                                                            *)
(***************************************************************************)
MaxPending == 2

(***************************************************************************)
(* Program constants and messages.                                         *)
(***************************************************************************)
MaxFileSize == 10 * 1024 * 1024

MsgNotImage == "Please select an image file"
MsgTooLarge == "File size must not exceed 10MB"
MsgNoFile == "Please select an image first"
MsgFailPrefix == "Analysis failed: "
MsgDefaultFail == "Analysis failed"
MsgHttpPrefix == "HTTP error! status: "
MsgDone == "Analysis complete!"
MsgCopied == "Results copied to the clipboard"
MsgCopyFailed == "Copy failed"

null == [name |-> "", type |-> "null", size |-> 0]

(***************************************************************************)
(* Inputs: candidate files, file lists, responses of the server.           *)
(***************************************************************************)
Files ==
    { [name |-> "a.png", type |-> "image/png",  size |-> MaxFileSize],
      [name |-> "b.jpg", type |-> "image/jpeg", size |-> 1024],
      [name |-> "c.txt", type |-> "text/plain", size |-> 1024],
      [name |-> "d.png", type |-> "image/png",  size |-> MaxFileSize + 1],
      [name |-> "e.bin", type |-> "image",      size |-> MaxFileSize + 1] }

\* e.dataTransfer.files of a drop: any number of files; only files[0] is used.
DropLists ==
    {<<>>} \cup { <<f>> : f \in Files }
           \cup { <<f, g>> : f \in {x \in Files : x.size = 1024},
                             g \in {x \in Files : x.size = MaxFileSize} }

\* e.target.files of the picker: nothing chosen, or one file.
PickLists ==
    {<<>>} \cup { <<f>> : f \in {x \in Files : x.name \in {"a.png", "c.txt"}} }

\* JavaScript values of the fields of a JSON body.
Undefined == [t |-> "undefined", v |-> ""]
JSBool(b) == [t |-> "boolean", v |-> IF b THEN "true" ELSE "false"]
JSString(s) == [t |-> "string", v |-> s]

Truthy(x) ==
    CASE x.t = "undefined" -> FALSE
      [] x.t = "boolean"   -> x.v = "true"
      [] x.t = "string"    -> x.v # ""

\* The value textContent takes when assigned x.
ToText(x) == IF x.t = "undefined" THEN "" ELSE x.v

Statuses == {200, 500}

\* Outcomes of fetch: the promise rejects, or resolves with a status.
FetchOutcomes ==
    {[kind |-> "reject", status |-> 0, message |-> "Failed to fetch"]}
    \cup { [kind |-> "response", status |-> s, message |-> ""] : s \in Statuses }

\* Outcomes of response.json(): the promise rejects, or resolves with a body.
JsonOutcomes ==
    {[kind |-> "reject", message |-> "Failed to fetch",
      success |-> Undefined, analysis |-> Undefined, error |-> Undefined]}
    \cup { [kind |-> "body", message |-> "",
            success |-> JSBool(TRUE), analysis |-> a, error |-> Undefined] :
             a \in {JSString("X"), JSString("Y"), Undefined} }
    \cup { [kind |-> "body", message |-> "",
            success |-> s, analysis |-> JSString("X"), error |-> e] :
             s \in {JSBool(FALSE), Undefined},
             e \in {JSString("E"), Undefined} }

(***************************************************************************)
(* Pure helpers.                                                           *)
(***************************************************************************)
StartsWith(s, p) == Len(s) >= Len(p) /\ SubSeq(s, 1, Len(p)) = p

ResponseOk(status) == status >= 200 /\ status <= 299

\* One more, or one fewer, copy of x in bag b.
BagAdd(b, x) == b (+) SetToBag({x})
BagRemove(b, x) == b (-) SetToBag({x})

\* FileReader.readAsDataURL: the data URL of a file's content.
DataURL(file) == "data:" \o file.type \o ";base64," \o file.name

\* The value a file input reports for a chosen file.
FakePath(files) == IF files = <<>> THEN "" ELSE "C:\\fakepath\\" \o files[1].name

\* document.createElement: an element distinct from every live toast.
FreshToast ==
    LET used == { timers[k] : k \in 1..Len(timers) }
    IN  CHOOSE i \in 1..(Len(timers) + 1) :
            i \notin used /\ \A j \in 1..(i - 1) : j \in used

Pending ==
    Len(timers) + BagCardinality(readers) + BagCardinality(requests)
        + BagCardinality(copies)

\* What the clipboard holds when the page is loaded.
ClipboardBefore == "(text of another application)"

(***************************************************************************)
(* Initial state: the constructor, on the page as loaded.                  *)
(***************************************************************************)
Init ==
    /\ selectedFile = null
    /\ fileInputValue = ""
    /\ uploadArea = "block"
    /\ previewSection = "none"
    /\ resultsSection = "none"
    /\ loadingOverlay = "none"
    /\ previewImage = ""
    /\ resultsContent = ""
    /\ toastContainer = <<>>
    /\ timers = <<>>
    /\ readers = EmptyBag
    /\ requests = EmptyBag
    /\ clipboard = ClipboardBefore
    /\ copies = EmptyBag

(***************************************************************************)
(* showToast, showLoading, showPreview, showResults.                       *)
(***************************************************************************)
ShowToast(message, type) ==
    /\ toastContainer' =
           Append(toastContainer,
                  [id |-> FreshToast, message |-> message, type |-> type])
    /\ timers' = Append(timers, FreshToast)

ShowLoading(show) ==
    loadingOverlay' = IF show THEN "flex" ELSE "none"

ShowPreview(file) ==
    readers' = BagAdd(readers, file)

\* Variant of showResults with a fault: the text is added to what is shown.
ShowResults_Appends(analysis) ==
    /\ resultsContent' = resultsContent \o ToText(analysis)
    /\ resultsSection' = "block"
    /\ ShowToast(MsgDone, "success")

\* Variant of showResults with a fault: a text already shown is kept.
ShowResults_KeepsFirst(analysis) ==
    /\ resultsContent' = IF resultsContent = "" THEN ToText(analysis)
                                               ELSE resultsContent
    /\ resultsSection' = "block"
    /\ ShowToast(MsgDone, "success")

ShowResults(analysis) ==
    /\ resultsContent' = ToText(analysis)
    /\ resultsSection' = "block"
    /\ ShowToast(MsgDone, "success")

(***************************************************************************)
(* processFile, and the two handlers that call it.                         *)
(***************************************************************************)
\* Variants of processFile with a fault: the type test dropped; the size
\* test taken as 'at least'.
ProcessFile_NoTypeCheck(file) ==
    /\ Pending < MaxPending
    /\ IF file.size > MaxFileSize
       THEN /\ ShowToast(MsgTooLarge, "error")
            /\ UNCHANGED <<selectedFile, readers>>
       ELSE /\ selectedFile' = file
            /\ ShowPreview(file)
            /\ UNCHANGED <<toastContainer, timers>>
    /\ UNCHANGED <<uploadArea, previewSection, resultsSection, loadingOverlay,
                   previewImage, resultsContent, requests>>

ProcessFile_SizeAtLeast(file) ==
    /\ Pending < MaxPending
    /\ IF ~StartsWith(file.type, "image/")
       THEN /\ ShowToast(MsgNotImage, "error")
            /\ UNCHANGED <<selectedFile, readers>>
       ELSE IF file.size >= MaxFileSize
       THEN /\ ShowToast(MsgTooLarge, "error")
            /\ UNCHANGED <<selectedFile, readers>>
       ELSE /\ selectedFile' = file
            /\ ShowPreview(file)
            /\ UNCHANGED <<toastContainer, timers>>
    /\ UNCHANGED <<uploadArea, previewSection, resultsSection, loadingOverlay,
                   previewImage, resultsContent, requests>>

\* Variant of processFile with a fault: the size test dropped.
ProcessFile_NoSizeCheck(file) ==
    /\ Pending < MaxPending
    /\ IF ~StartsWith(file.type, "image/")
       THEN /\ ShowToast(MsgNotImage, "error")
            /\ UNCHANGED <<selectedFile, readers>>
       ELSE /\ selectedFile' = file
            /\ ShowPreview(file)
            /\ UNCHANGED <<toastContainer, timers>>
    /\ UNCHANGED <<uploadArea, previewSection, resultsSection, loadingOverlay,
                   previewImage, resultsContent, requests>>

ProcessFile(file) ==
    /\ Pending < MaxPending
    /\ IF ~StartsWith(file.type, "image/")
       THEN /\ ShowToast(MsgNotImage, "error")
            /\ UNCHANGED <<selectedFile, readers>>
       ELSE IF file.size > MaxFileSize
       THEN /\ ShowToast(MsgTooLarge, "error")
            /\ UNCHANGED <<selectedFile, readers>>
       ELSE /\ selectedFile' = file
            /\ ShowPreview(file)
            /\ UNCHANGED <<toastContainer, timers>>
    /\ UNCHANGED <<uploadArea, previewSection, resultsSection, loadingOverlay,
                   previewImage, resultsContent, requests>>

\* 'change' of the file input: fired when the chosen file changes.
HandleFileSelect(files) ==
    /\ FakePath(files) # fileInputValue
    /\ UNCHANGED copyVars
    /\ fileInputValue' = FakePath(files)
    /\ IF files # <<>>
       THEN ProcessFile(files[1])
       ELSE UNCHANGED <<selectedFile, uploadArea, previewSection,
                        resultsSection, loadingOverlay, previewImage,
                        resultsContent, toastContainer, timers, readers,
                        requests>>

HandleDrop(files) ==
    /\ UNCHANGED <<fileInputValue, copyVars>>
    /\ IF Len(files) > 0
       THEN ProcessFile(files[1])
       ELSE UNCHANGED <<selectedFile, uploadArea, previewSection,
                        resultsSection, loadingOverlay, previewImage,
                        resultsContent, toastContainer, timers, readers,
                        requests>>

\* Variant of reader.onload with a fault: the results section is left as is.
ReaderLoad_KeepsResults(file) ==
    /\ BagIn(file, readers)
    /\ previewImage' = DataURL(file)
    /\ uploadArea' = "none"
    /\ previewSection' = "block"
    /\ readers' = BagRemove(readers, file)
    /\ UNCHANGED <<selectedFile, fileInputValue, resultsSection,
                   loadingOverlay, resultsContent, toastContainer, timers,
                   requests, copyVars>>

\* reader.onload of showPreview.
ReaderLoad(file) ==
    /\ BagIn(file, readers)
    /\ previewImage' = DataURL(file)
    /\ uploadArea' = "none"
    /\ previewSection' = "block"
    /\ resultsSection' = "none"
    /\ readers' = BagRemove(readers, file)
    /\ UNCHANGED <<selectedFile, fileInputValue, loadingOverlay,
                   resultsContent, toastContainer, timers, requests,
                   copyVars>>

(***************************************************************************)
(* analyzeImage: the call up to its first await, and its continuations.    *)
(***************************************************************************)
\* Variants of analyzeImage with a fault: the test for a SelectedFile
\* dropped; the results section hidden when the request is issued.
AnalyzeImage_NoGuard ==
    /\ Pending < MaxPending
    /\ ShowLoading(TRUE)
    /\ requests' = BagAdd(requests, [file |-> selectedFile, pc |-> "fetch"])
    /\ UNCHANGED <<toastContainer, timers>>
    /\ UNCHANGED <<selectedFile, fileInputValue, uploadArea, previewSection,
                   resultsSection, previewImage, resultsContent, readers,
                   copyVars>>

AnalyzeImage_ClearsResults ==
    /\ Pending < MaxPending
    /\ IF selectedFile = null
       THEN /\ ShowToast(MsgNoFile, "error")
            /\ UNCHANGED <<loadingOverlay, requests, resultsSection>>
       ELSE /\ ShowLoading(TRUE)
            /\ resultsSection' = "none"
            /\ requests' = BagAdd(requests, [file |-> selectedFile, pc |-> "fetch"])
            /\ UNCHANGED <<toastContainer, timers>>
    /\ UNCHANGED <<selectedFile, fileInputValue, uploadArea, previewSection,
                   previewImage, resultsContent, readers,
                   copyVars>>

AnalyzeImage ==
    /\ Pending < MaxPending
    /\ IF selectedFile = null
       THEN /\ ShowToast(MsgNoFile, "error")
            /\ UNCHANGED <<loadingOverlay, requests>>
       ELSE /\ ShowLoading(TRUE)
            /\ requests' = BagAdd(requests, [file |-> selectedFile, pc |-> "fetch"])
            /\ UNCHANGED <<toastContainer, timers>>
    /\ UNCHANGED <<selectedFile, fileInputValue, uploadArea, previewSection,
                   resultsSection, previewImage, resultsContent, readers,
                   copyVars>>

\* Variants of the catch and finally of analyzeImage with a fault: the
\* results section hidden in the catch; the finally left out.
AnalyzeCatch_HidesResults(r, message) ==
    /\ ShowToast(MsgFailPrefix \o message, "error")
    /\ ShowLoading(FALSE)
    /\ resultsSection' = "none"
    /\ requests' = BagRemove(requests, r)
    /\ UNCHANGED <<selectedFile, fileInputValue, uploadArea, previewSection,
                   previewImage, resultsContent, readers>>

AnalyzeCatch_NoFinally(r, message) ==
    /\ ShowToast(MsgFailPrefix \o message, "error")
    /\ requests' = BagRemove(requests, r)
    /\ UNCHANGED <<selectedFile, fileInputValue, uploadArea, previewSection,
                   resultsSection, loadingOverlay, previewImage,
                   resultsContent, readers>>

\* Variant of the catch of analyzeImage with a fault: the request is sent
\* again.
AnalyzeCatch_Retries(r, message) ==
    /\ ShowToast(MsgFailPrefix \o message, "error")
    /\ ShowLoading(FALSE)
    /\ requests' = BagAdd(BagRemove(requests, r), [file |-> r.file, pc |-> "fetch"])
    /\ UNCHANGED <<selectedFile, fileInputValue, uploadArea, previewSection,
                   resultsSection, previewImage, resultsContent, readers>>

\* catch and finally of analyzeImage, for the suspended call r.
AnalyzeCatch(r, message) ==
    /\ ShowToast(MsgFailPrefix \o message, "error")
    /\ ShowLoading(FALSE)
    /\ requests' = BagRemove(requests, r)
    /\ UNCHANGED <<selectedFile, fileInputValue, uploadArea, previewSection,
                   resultsSection, previewImage, resultsContent, readers>>

\* Variant of the continuation after 'await fetch' with a fault: the status
\* is not tested and the body is read whatever it is.
FetchResolve_ReadsBody(r, outcome) ==
    /\ BagIn(r, requests)
    /\ r.pc = "fetch"
    /\ UNCHANGED copyVars
    /\ IF outcome.kind = "reject"
       THEN AnalyzeCatch(r, outcome.message)
       ELSE /\ requests' = BagAdd(BagRemove(requests, r), [r EXCEPT !.pc = "json"])
            /\ UNCHANGED <<selectedFile, fileInputValue, uploadArea,
                           previewSection, resultsSection, loadingOverlay,
                           previewImage, resultsContent, toastContainer,
                           timers, readers>>

\* the continuation after 'await fetch'.
FetchResolve(r, outcome) ==
    /\ BagIn(r, requests)
    /\ r.pc = "fetch"
    /\ UNCHANGED copyVars
    /\ IF outcome.kind = "reject"
       THEN AnalyzeCatch(r, outcome.message)
       ELSE IF ~ResponseOk(outcome.status)
       THEN AnalyzeCatch(r, MsgHttpPrefix \o ToString(outcome.status))
       ELSE /\ requests' = BagAdd(BagRemove(requests, r), [r EXCEPT !.pc = "json"])
            /\ UNCHANGED <<selectedFile, fileInputValue, uploadArea,
                           previewSection, resultsSection, loadingOverlay,
                           previewImage, resultsContent, toastContainer,
                           timers, readers>>

\* the continuation after 'await response.json()'.
JsonResolve(r, outcome) ==
    /\ BagIn(r, requests)
    /\ r.pc = "json"
    /\ UNCHANGED copyVars
    /\ IF outcome.kind = "reject"
       THEN AnalyzeCatch(r, outcome.message)
       ELSE IF Truthy(outcome.success)
       THEN /\ ShowResults(outcome.analysis)
            /\ ShowLoading(FALSE)
            /\ requests' = BagRemove(requests, r)
            /\ UNCHANGED <<selectedFile, fileInputValue, uploadArea,
                           previewSection, previewImage, readers>>
       ELSE AnalyzeCatch(r, IF Truthy(outcome.error)
                            THEN ToText(outcome.error)
                            ELSE MsgDefaultFail)

(***************************************************************************)
(* resetUpload, and the timer of showToast.                                *)
(***************************************************************************)
\* Variant of resetUpload with a fault: the file input keeps its value.
ResetUpload_KeepsInput ==
    /\ selectedFile' = null
    /\ uploadArea' = "block"
    /\ previewSection' = "none"
    /\ resultsSection' = "none"
    /\ UNCHANGED <<fileInputValue, loadingOverlay, previewImage,
                   resultsContent, toastContainer, timers, readers, requests,
                   copyVars>>

ResetUpload ==
    /\ selectedFile' = null
    /\ fileInputValue' = ""
    /\ uploadArea' = "block"
    /\ previewSection' = "none"
    /\ resultsSection' = "none"
    /\ UNCHANGED <<loadingOverlay, previewImage, resultsContent,
                   toastContainer, timers, readers, requests, copyVars>>

\* Variant of the setTimeout callback with a fault: the container is emptied.
ToastTimeout_ClearsContainer ==
    /\ timers # <<>>
    /\ toastContainer' = <<>>
    /\ timers' = Tail(timers)
    /\ UNCHANGED <<selectedFile, fileInputValue, uploadArea, previewSection,
                   resultsSection, loadingOverlay, previewImage,
                   resultsContent, readers, requests, copyVars>>

\* the setTimeout callback of showToast: toast.remove().
ToastTimeout ==
    /\ timers # <<>>
    /\ toastContainer' =
           SelectSeq(toastContainer, LAMBDA t : t.id # Head(timers))
    /\ timers' = Tail(timers)
    /\ UNCHANGED <<selectedFile, fileInputValue, uploadArea, previewSection,
                   resultsSection, loadingOverlay, previewImage,
                   resultsContent, readers, requests, copyVars>>

(***************************************************************************)
(* copyResults: the call up to its await, and its continuation.            *)
(***************************************************************************)
CopyResults ==
    /\ Pending < MaxPending
    /\ copies' = BagAdd(copies, resultsContent)
    /\ UNCHANGED <<selectedFile, fileInputValue, uploadArea, previewSection,
                   resultsSection, loadingOverlay, previewImage,
                   resultsContent, toastContainer, timers, readers, requests,
                   clipboard>>

\* Variant of the continuation of copyResults with a fault: no catch, the
\* success notification is shown whatever the outcome.
CopyResolve_NoCatch(text, ok) ==
    /\ BagIn(text, copies)
    /\ copies' = BagRemove(copies, text)
    /\ clipboard' = IF ok THEN text ELSE clipboard
    /\ ShowToast(MsgCopied, "success")
    /\ UNCHANGED <<selectedFile, fileInputValue, uploadArea, previewSection,
                   resultsSection, loadingOverlay, previewImage,
                   resultsContent, readers, requests>>

\* the continuation after 'await navigator.clipboard.writeText': the write
\* of text was done (ok), or the promise rejected.
CopyResolve(text, ok) ==
    /\ BagIn(text, copies)
    /\ copies' = BagRemove(copies, text)
    /\ IF ok
       THEN /\ clipboard' = text
            /\ ShowToast(MsgCopied, "success")
       ELSE /\ UNCHANGED clipboard
            /\ ShowToast(MsgCopyFailed, "error")
    /\ UNCHANGED <<selectedFile, fileInputValue, uploadArea, previewSection,
                   resultsSection, loadingOverlay, previewImage,
                   resultsContent, readers, requests>>

Next ==
    \/ \E files \in PickLists : HandleFileSelect(files)
    \/ \E files \in DropLists : HandleDrop(files)
    \/ \E file \in BagToSet(readers) : ReaderLoad(file)
    \/ AnalyzeImage
    \/ \E r \in BagToSet(requests), outcome \in FetchOutcomes : FetchResolve(r, outcome)
    \/ \E r \in BagToSet(requests), outcome \in JsonOutcomes : JsonResolve(r, outcome)
    \/ ResetUpload
    \/ ToastTimeout

\* The widget without its copy button: copyResults reads resultsContent and
\* writes only the clipboard and the notifications.
Spec == Init /\ [][Next]_vars

\* The widget with its copy button.
CopyNext ==
    \/ Next
    \/ CopyResults
    \/ \E text \in BagToSet(copies), ok \in BOOLEAN : CopyResolve(text, ok)

CopySpec == Init /\ [][CopyNext]_vars

\* The platform completes what it has started: a FileReader read ends, a
\* fetch and a body read settle, a timer fires.  User events are not forced.
Fairness ==
    /\ WF_vars(\E file \in BagToSet(readers) : ReaderLoad(file))
    /\ WF_vars(\E r \in BagToSet(requests), outcome \in FetchOutcomes :
                  FetchResolve(r, outcome))
    /\ WF_vars(\E r \in BagToSet(requests), outcome \in JsonOutcomes :
                  JsonResolve(r, outcome))
    /\ WF_vars(ToastTimeout)

FairSpec == Spec /\ Fairness

\* Only the timers are fair: a timer that is armed fires, whatever becomes of
\* the reads and the requests.
TimerSpec == Spec /\ WF_vars(ToastTimeout)

(***************************************************************************)
(* Vocabulary of the properties.                                           *)
(***************************************************************************)
IsImage(file) == StartsWith(file.type, "image/")

ValidFile(file) == IsImage(file) /\ file.size <= MaxFileSize

\* The step is a select-file operation: the picker's 'change' or a drop,
\* with files[1] the candidate file.
Selects(files) == HandleFileSelect(files) \/ HandleDrop(files)

\* The file lists whose candidate file is not an image; is larger than
\* 10,485,760 bytes; is an image of exactly that size; is a valid image.
NonImageLists == { files \in DropLists \ {<<>>} : ~IsImage(files[1]) }
OversizeLists == { files \in DropLists \ {<<>>} : files[1].size > 10485760 }
AtLimitLists ==
    { files \in DropLists \ {<<>>} :
        IsImage(files[1]) /\ files[1].size = 10485760 }
ValidLists == { files \in DropLists \ {<<>>} : ValidFile(files[1]) }

\* The step appends exactly one notification, of the given severity (and
\* message), and removes none.
NotifiesSome(type) ==
    /\ Len(toastContainer') = Len(toastContainer) + 1
    /\ SubSeq(toastContainer', 1, Len(toastContainer)) = toastContainer
    /\ toastContainer'[Len(toastContainer')].type = type

Notifies(type, message) ==
    /\ NotifiesSome(type)
    /\ toastContainer'[Len(toastContainer')].message = message

HasToast(message) ==
    \E k \in 1..Len(toastContainer) : toastContainer[k].message = message

InFlight == BagCardinality(requests)

\* The step ends the suspended call r as a failure: fetch rejected, the
\* status is not OK, the body cannot be read, or its success is not truthy.
FailsRequest(r) ==
    \/ \E outcome \in FetchOutcomes :
         /\ outcome.kind = "reject" \/ ~ResponseOk(outcome.status)
         /\ FetchResolve(r, outcome)
    \/ \E outcome \in JsonOutcomes :
         /\ outcome.kind = "reject" \/ ~Truthy(outcome.success)
         /\ JsonResolve(r, outcome)

\* The step ends the suspended call r with an OK status and a body whose
\* success is truthy and whose analysis is the text x.
SucceedsRequest(r, x) ==
    \E outcome \in JsonOutcomes :
        /\ outcome.kind = "body"
        /\ outcome.success = JSBool(TRUE)
        /\ outcome.analysis = JSString(x)
        /\ JsonResolve(r, outcome)

Texts == {"X", "Y"}

\* The calls in flight before the step.
Calls == BagToSet(requests)

(***************************************************************************)
(* C1: selecting a file whose media type does not start with "image/"      *)
(* (picker or drop, from any state) leaves SelectedFile, the preview image *)
(* and the four visibility flags as they were, starts no read, and emits   *)
(* exactly one error notification.                                         *)
(***************************************************************************)
C1_NonImageRejected ==
    [][\A files \in NonImageLists :
         Selects(files) =>
            /\ UNCHANGED <<selectedFile, previewImage, uploadArea,
                           previewSection, resultsSection, loadingOverlay,
                           readers>>
            /\ NotifiesSome("error")]_vars

\* A non-image was rejected while a file was selected and its results shown.
C1_Witness ==
    /\ selectedFile # null
    /\ previewSection = "block"
    /\ resultsSection = "block"
    /\ HasToast(MsgNotImage)

(***************************************************************************)
(* C2: a file of more than 10,485,760 bytes is rejected whatever its type: *)
(* SelectedFile and the visibility flags are unchanged and one error       *)
(* notification is emitted, the type error when the type is invalid too    *)
(* and the size error otherwise; an image of exactly 10,485,760 bytes      *)
(* becomes the SelectedFile.                                               *)
(***************************************************************************)
C2_OversizeRejected ==
    [][/\ \A files \in OversizeLists :
            Selects(files) =>
               /\ UNCHANGED <<selectedFile, uploadArea, previewSection,
                              resultsSection, loadingOverlay>>
               /\ Notifies("error", IF IsImage(files[1]) THEN MsgTooLarge
                                                         ELSE MsgNotImage)
       /\ \A files \in AtLimitLists :
            Selects(files) =>
               /\ selectedFile' = files[1]
               /\ UNCHANGED toastContainer]_vars

\* An oversize image was rejected while another file was selected, and the
\* file of exactly the limit is selected.
C2_Witness ==
    /\ selectedFile # null
    /\ selectedFile.size = 10485760
    /\ previewSection = "block"
    /\ HasToast(MsgTooLarge)

(***************************************************************************)
(* C3: selecting a valid image (type starts with "image/", size at most    *)
(* 10,485,760) from any state makes it the SelectedFile and starts a read  *)
(* of it; the completion of a read puts the widget in preview mode         *)
(* (preview visible, upload surface hidden, results hidden), and a started *)
(* read does complete.                                                     *)
(***************************************************************************)
PreviewMode ==
    /\ previewSection = "block"
    /\ uploadArea = "none"
    /\ resultsSection = "none"

C3_ValidSelectShowsPreview ==
    /\ [][/\ \A files \in ValidLists :
               Selects(files) =>
                  /\ selectedFile' = files[1]
                  /\ readers' = BagAdd(readers, files[1])
            /\ \A file \in BagToSet(readers) :
               ReaderLoad(file) => PreviewMode']_vars
    /\ (BagCardinality(readers) > 0) ~> PreviewMode

\* Preview mode was entered from a state that showed results: the results
\* text is of an earlier analysis and the preview is of the selected file.
C3_Witness ==
    /\ PreviewMode
    /\ resultsContent # ""
    /\ selectedFile # null
    /\ previewImage = DataURL(selectedFile)
    /\ readers = EmptyBag

(***************************************************************************)
(* C4: analyze with no SelectedFile issues no request: it emits one error  *)
(* notification and changes nothing else, the loading indicator included;  *)
(* so in every state, also after a reset.                                  *)
(***************************************************************************)
C4_NoFileNoRequest ==
    [][(selectedFile = null /\ AnalyzeImage) =>
          /\ Notifies("error", MsgNoFile)
          /\ UNCHANGED <<requests, loadingOverlay, selectedFile,
                         fileInputValue, uploadArea, previewSection,
                         resultsSection, previewImage, resultsContent,
                         readers>>]_vars

\* Analyze was refused after a reset that left a request in flight.
C4_Witness ==
    /\ selectedFile = null
    /\ HasToast(MsgNoFile)
    /\ InFlight > 0
    /\ uploadArea = "block"

(***************************************************************************)
(* C5: when a request resolves with an OK status and a body with success   *)
(* true and analysis X, the result text becomes exactly X, the results     *)
(* section becomes visible and one success notification is emitted.        *)
(***************************************************************************)
C5_SuccessShowsAnalysis ==
    [][\A r \in Calls, x \in Texts :
         SucceedsRequest(r, x) =>
            /\ resultsContent' = x
            /\ resultsSection' = "block"
            /\ NotifiesSome("success")]_vars

\* A second success replaced the text of a first one.
C5_Witness ==
    /\ resultsSection = "block"
    /\ resultsContent = "Y"
    /\ HasToast(MsgDone)
    /\ InFlight = 0

(***************************************************************************)
(* C6: when a request resolves as a failure (fetch rejected, status not    *)
(* OK, body unreadable or success not truthy), exactly one error           *)
(* notification is emitted and the results section's visibility, the       *)
(* result text, the SelectedFile and the preview's visibility are          *)
(* unchanged.                                                              *)
(***************************************************************************)
C6_FailureKeepsState ==
    [][\A r \in Calls :
         FailsRequest(r) =>
            /\ NotifiesSome("error")
            /\ UNCHANGED <<resultsSection, resultsContent, selectedFile,
                           previewSection>>]_vars

\* A request failed while the result of an earlier one was shown.
C6_Witness ==
    /\ resultsSection = "block"
    /\ resultsContent # ""
    /\ selectedFile # null
    /\ \E k \in 1..Len(toastContainer) :
          /\ toastContainer[k].type = "error"
          /\ StartsWith(toastContainer[k].message, MsgFailPrefix)

(***************************************************************************)
(* C7: reset can be invoked in every reachable state and leaves            *)
(* SelectedFile cleared, the file-input value empty, the upload surface    *)
(* visible, and the preview and results sections hidden.                   *)
(***************************************************************************)
Idle ==
    /\ selectedFile = null
    /\ fileInputValue = ""
    /\ uploadArea = "block"
    /\ previewSection = "none"
    /\ resultsSection = "none"

C7_ResetReturnsToIdle ==
    /\ [](ENABLED ResetUpload)
    /\ [][ResetUpload => Idle']_vars

\* Reset while a preview read and an analyze request were pending.
C7_Witness ==
    /\ Idle
    /\ BagCardinality(readers) > 0
    /\ InFlight > 0
    /\ loadingOverlay = "flex"

(***************************************************************************)
(* C8: the loading indicator is hidden once an analyze call finishes:      *)
(* every step that ends a call (success, failure or exception) hides it,   *)
(* it is hidden whenever no request is in flight, and a shown indicator is *)
(* eventually hidden.                                                      *)
(***************************************************************************)
C8_LoadingHiddenAfterCall ==
    /\ [](InFlight = 0 => loadingOverlay = "none")
    /\ [][InFlight' < InFlight => loadingOverlay' = "none"]_vars
    /\ (loadingOverlay = "flex") ~> (loadingOverlay = "none")

\* A call ended in the catch branch and the indicator is hidden.
C8_Witness ==
    /\ InFlight = 0
    /\ loadingOverlay = "none"
    /\ HasToast(MsgFailPrefix \o "Failed to fetch")

(***************************************************************************)
(* C9: in every reachable state with at least one analyze request in       *)
(* flight the loading indicator is visible.                                *)
(***************************************************************************)
C9_LoadingWhileInFlight ==
    InFlight > 0 => loadingOverlay = "flex"

(***************************************************************************)
(* C10, as stated: a step that starts an analysis (analyze invoked with a  *)
(* SelectedFile) leaves no earlier result displayed: the results section   *)
(* is hidden or the result text is empty.                                  *)
(***************************************************************************)
C10_ClearedOnAnalyze ==
    [][(selectedFile # null /\ AnalyzeImage) =>
          (resultsSection' = "none" \/ resultsContent' = "")]_vars

(***************************************************************************)
(* C10, amended: starting an analysis does not clear the AnalysisResult.   *)
(* Analyze invoked with a SelectedFile, and the failure of a request,      *)
(* leave the results section's visibility and the result text unchanged;   *)
(* a visible results section is hidden only by a reset or by the           *)
(* completion of a preview read.                                           *)
(***************************************************************************)
C10_ResultKeptOnAnalyze ==
    /\ [][(selectedFile # null /\ AnalyzeImage) =>
             UNCHANGED <<resultsSection, resultsContent>>]_vars
    /\ [][\A r \in Calls :
             FailsRequest(r) => UNCHANGED <<resultsSection, resultsContent>>]_vars
    /\ [][(resultsSection = "block" /\ resultsSection' = "none") =>
             (ResetUpload \/ \E file \in BagToSet(readers) : ReaderLoad(file))]_vars

\* The result of an earlier analysis is displayed while a new request is in
\* flight.
C10_Witness ==
    /\ resultsSection = "block"
    /\ resultsContent = "X"
    /\ HasToast(MsgDone)
    /\ InFlight = 1
    /\ loadingOverlay = "flex"

(***************************************************************************)
(* C11: in every reachable state SelectedFile is empty or one of the       *)
(* candidate files, with a media type that starts with "image/" and a size *)
(* of at most 10,485,760 bytes, whatever select, analyze, reset and copy   *)
(* operations led there.                                                   *)
(***************************************************************************)
C11_SelectedFileValid ==
    \/ selectedFile = null
    \/ /\ selectedFile \in Files
       /\ StartsWith(selectedFile.type, "image/")
       /\ selectedFile.size <= 10485760

\* A file stayed selected through the rejection of an oversize image and
\* a copy.
C11_Witness ==
    /\ selectedFile # null
    /\ HasToast(MsgTooLarge)
    /\ copies # EmptyBag

(***************************************************************************)
(* C12: copy results, invoked with displayed result text X (empty or not), *)
(* starts one clipboard write of X; when the write succeeds the clipboard  *)
(* holds exactly X and one success notification is emitted, when it fails  *)
(* the clipboard is as before and one error notification is emitted; the   *)
(* invocation and both outcomes leave SelectedFile, the result text and    *)
(* the visibility flags unchanged.                                         *)
(***************************************************************************)
C12_CopyWritesText ==
    [][/\ CopyResults =>
            /\ copies' = BagAdd(copies, resultsContent)
            /\ UNCHANGED <<clipboard, toastContainer>>
       /\ \A text \in BagToSet(copies) :
            /\ CopyResolve(text, TRUE) =>
                  /\ clipboard' = text
                  /\ Notifies("success", MsgCopied)
            /\ CopyResolve(text, FALSE) =>
                  /\ clipboard' = clipboard
                  /\ Notifies("error", MsgCopyFailed)
       /\ copies' # copies =>
            UNCHANGED <<selectedFile, resultsContent, uploadArea,
                        previewSection, resultsSection, loadingOverlay>>]_vars

\* The displayed text X was copied: the clipboard holds it.
C12_Witness ==
    /\ resultsSection = "block"
    /\ resultsContent = "X"
    /\ clipboard = "X"
    /\ HasToast(MsgCopied)

(***************************************************************************)
(* C13: every notification has its own timer and is eventually removed by  *)
(* it; a timer removes its notification and no other, nothing else removes *)
(* one, and coexisting notifications are removed one at a time in the      *)
(* order of their creation.                                                *)
(***************************************************************************)
ToastIds == { toastContainer[k].id : k \in 1..Len(toastContainer) }

C13_ToastsRemovedInOrder ==
    /\ [](/\ timers = [k \in 1..Len(toastContainer) |-> toastContainer[k].id]
          /\ Cardinality(ToastIds) = Len(toastContainer)
          /\ timers # <<>> => ENABLED ToastTimeout)
    /\ [][/\ ToastTimeout => toastContainer' = Tail(toastContainer)
          /\ toastContainer' # toastContainer =>
                \/ ToastTimeout
                \/ /\ Len(toastContainer') = Len(toastContainer) + 1
                   /\ SubSeq(toastContainer', 1, Len(toastContainer))
                          = toastContainer]_vars
    /\ \A i \in 1..MaxPending : (i \in ToastIds) ~> (i \notin ToastIds)

\* Of two coexisting notifications the older one was removed: the younger
\* one is left, with its timer.
C13_Witness ==
    /\ Len(toastContainer) = 1
    /\ toastContainer[1].id = 2
    /\ timers = <<2>>

(***************************************************************************)
(* C14, as stated: a response with a non-2xx status leads to the           *)
(* notification of a JSON-level failure, the one with the error message E  *)
(* of the body, or the default message if the body has none.               *)
(***************************************************************************)
C14_SameNotification ==
    [][\A r \in Calls, outcome \in FetchOutcomes :
         (/\ outcome.kind = "response"
          /\ ~(outcome.status \in 200..299)
          /\ FetchResolve(r, outcome)) =>
            \/ Notifies("error", "Analysis failed: E")
            \/ Notifies("error", "Analysis failed: Analysis failed")]_vars

(***************************************************************************)
(* C14, amended: a non-2xx status is treated as a JSON-level failure       *)
(* except for the message.  Both end the call with one error notification, *)
(* the loading indicator hidden and everything else unchanged; after a     *)
(* non-2xx status the body is not read and the notification carries        *)
(* "HTTP error! status: <status>", after a 2xx body whose success is not   *)
(* truthy it carries the body's error E, or the default message.           *)
(***************************************************************************)
EndsCall(r) ==
    /\ requests' = BagRemove(requests, r)
    /\ loadingOverlay' = "none"
    /\ UNCHANGED <<selectedFile, fileInputValue, uploadArea, previewSection,
                   resultsSection, previewImage, resultsContent, readers>>

C14_HttpFailureLikeJsonFailure ==
    [][\A r \in Calls :
         /\ FetchResolve(r, [kind |-> "response", status |-> 500, message |-> ""]) =>
               /\ Notifies("error", "Analysis failed: HTTP error! status: 500")
               /\ EndsCall(r)
         /\ \A outcome \in JsonOutcomes :
               (/\ outcome.kind = "body"
                /\ ~Truthy(outcome.success)
                /\ JsonResolve(r, outcome)) =>
                  /\ Notifies("error",
                              IF outcome.error = JSString("E")
                              THEN "Analysis failed: E"
                              ELSE "Analysis failed: Analysis failed")
                  /\ EndsCall(r)]_vars

\* A call ended on a status 500 while a result was shown.
C14_Witness ==
    /\ HasToast("Analysis failed: HTTP error! status: 500")
    /\ loadingOverlay = "none"
    /\ resultsSection = "block"
    /\ InFlight = 0

(***************************************************************************)
(* C15: whenever the results section is visible the displayed text is the  *)
(* analysis returned for the current SelectedFile: a step that displays an *)
(* analysis displays that of a call made for the file that is the          *)
(* SelectedFile, and no step changes the SelectedFile and leaves the       *)
(* results section visible.                                                *)
(***************************************************************************)
C15_ResultsOfSelectedFile ==
    [][/\ \A r \in Calls, x \in Texts :
            SucceedsRequest(r, x) => r.file = selectedFile'
       /\ (resultsSection = "block" /\ selectedFile' # selectedFile) =>
            resultsSection' = "none"]_vars

(***************************************************************************)
(* C16: results are shown only in the Previewing state: whenever the       *)
(* results section is visible the preview section is visible, the upload   *)
(* surface is hidden and a SelectedFile is set; and the widget leaves the  *)
(* Idle state only by a select-file operation.                             *)
(***************************************************************************)
C16_ResultsOnlyInPreview ==
    /\ [](resultsSection = "block" =>
             /\ previewSection = "block"
             /\ uploadArea = "none"
             /\ selectedFile # null)
    /\ [][(Idle /\ ~Idle') =>
             \E files \in DropLists : Selects(files)]_vars

(***************************************************************************)
(* C17: the last response to resolve wins: a successful response writes    *)
(* its analysis over whatever is displayed, also when another request is   *)
(* in flight or has resolved before it, and nothing but a successful       *)
(* response changes the displayed text; so after two concurrent requests   *)
(* have both succeeded the text is the analysis of the one that resolved   *)
(* last.                                                                   *)
(***************************************************************************)
C17_LastResponseWins ==
    [][/\ \A r \in Calls, x \in Texts :
            SucceedsRequest(r, x) =>
               /\ resultsContent' = x
               /\ requests' = BagRemove(requests, r)
       /\ resultsContent' # resultsContent =>
            \E r \in Calls, outcome \in JsonOutcomes :
               /\ outcome.kind = "body"
               /\ Truthy(outcome.success)
               /\ JsonResolve(r, outcome)
               /\ resultsContent' = ToText(outcome.analysis)]_vars

\* Two requests succeeded one after the other with different analyses: the
\* text is that of the second, whose notification is the younger one.
C17_Witness ==
    /\ Len(toastContainer) = 2
    /\ toastContainer[1].message = MsgDone
    /\ toastContainer[2].message = MsgDone
    /\ resultsContent = "Y"
    /\ InFlight = 0
    /\ loadingOverlay = "none"

(***************************************************************************)
(* C18: whenever the preview section is visible a SelectedFile is set and  *)
(* the preview image is the rendering of that file.                        *)
(***************************************************************************)
C18_PreviewOfSelectedFile ==
    previewSection = "block" =>
        /\ selectedFile # null
        /\ previewImage = DataURL(selectedFile)

(***************************************************************************)
(* C19: an analyze invocation with a SelectedFile issues exactly one       *)
(* request, carrying the file that is the SelectedFile at that moment; no  *)
(* other step issues a request, a pending request keeps its file, and a    *)
(* failing request ends without another being issued.                      *)
(***************************************************************************)
C19_OneRequestPerAnalyze ==
    [][/\ (selectedFile # null /\ AnalyzeImage) =>
            requests' = BagAdd(requests, [file |-> selectedFile, pc |-> "fetch"])
       /\ InFlight' > InFlight => (selectedFile # null /\ AnalyzeImage)
       /\ \A r \in Calls :
            /\ FailsRequest(r) => requests' = BagRemove(requests, r)
            /\ FetchResolve(r, [kind |-> "response", status |-> 200, message |-> ""]) =>
                  requests' = BagAdd(BagRemove(requests, r),
                                     [file |-> r.file, pc |-> "json"])]_vars

\* A request failed and none is in flight, with the file still selected.
C19_Witness ==
    /\ selectedFile # null
    /\ InFlight = 0
    /\ loadingOverlay = "none"
    /\ HasToast("Analysis failed: Failed to fetch")
    /\ resultsSection = "none"

====
